---- MODULE Spec2Model ----
(***************************************************************************)
(* The LLM microservice: the lifespan that loads the engine and creates    *)
(* the asyncio.Lock, the /health endpoint, and the /chat/completions       *)
(* handler that serialises calls of llm.create_chat_completion behind the  *)
(* lock and runs each call on an executor thread.                          *)
(*                                                                         *)
(* One event loop runs the request tasks: an action is the code a task     *)
(* runs between two suspension points (waiting for the lock, awaiting the  *)
(* executor future).  Executor threads run beside the loop.                *)
(*                                                                         *)
(* The command-line client (LLMChatClient) is modelled beside the service: *)
(* its conversation history and what get_llm_response does with each reply *)
(* the service can give.  ClientSpec runs the client's operations.         *)
(***************************************************************************)
EXTENDS Integers, Sequences, FiniteSets, TLC

\* Number of completion requests submitted in a run.
NumRequests == 3
\* The messages lists a request may carry (the roles of its messages).
MessageLists == { <<>>, <<"user">> }

Requests == 1..NumRequests

\* Last second of the service's clock.
MaxClock == 2

\* Longest conversation history the client builds.
MaxHistory == 3
\* What the user types, what an assistant message may say, the system prompts.
UserInputs == {"hello", "and then?"}
AssistantContents == {"hi there"}
SystemPrompts == {"be brief"}
\* default_system_prompt=None (or empty): no system message.
NoSystemPrompt == ""

VARIABLES
    phase,        \* position of lifespan(): "init", "serving" (at the yield), "stopped"
    pathExists,   \* os.path.exists(MODEL_PATH)
    llm,          \* app.state.llm: "unset" (no attribute), "none", "engine"
    llm_lock,     \* app.state.llm_lock: "unset", "none", "lock"
    locked,       \* asyncio.Lock._locked
    waiters,      \* asyncio.Lock._waiters: the queued tasks, oldest first
    fut,          \* the future a queued task awaits: "none", "pending", "result", "cancelled"
    pc,           \* each request task: "idle", "waiting", "invoking", "done"
    messages,     \* request_data.messages of each request
    cancelReq,    \* task.cancel() was called and CancelledError is still to be thrown
    worker,       \* the executor thread of each request: "none", "running", "finished"
    result,       \* what the engine call of each request returned or raised
    outcome,      \* what the handler gave back for each request
    acquired,     \* times each request took the lock
    released,     \* times each request released the lock
    health,       \* the last answer of /health
    healthBusy,   \* whether that answer was given while the lock was held with a call in flight and tasks queued
    llamaCalls,   \* the calls of the Llama constructor so far: the arguments of each
    now,          \* int(time.time()) in the service: whole seconds since it started
    conversation_history,  \* LLMChatClient.conversation_history
    returned,     \* what the last get_llm_response call returned ("" before any call)
    posted,       \* the messages of each requests.post made by the last get_llm_response call
    reply,        \* what the service did with that post
    before,       \* the history when add_user_message was last called
    lastCall,     \* the client operation called last
    lastArg,      \* the argument of that call ("" when it has none or was given none)
    config_file,  \* the file at config_path: what exists(), open() and safe_load() do with it
    loaded,       \* what load_config_from_yaml returned or raised
    loopPc,       \* run_chat_loop: "off", "input" (at input("You: ")), "turn" (between
                  \* add_user_message and get_llm_response), "exited"
    user_input,   \* the line run_chat_loop read last
    current_turn_temp,    \* the temperature of the next turn, in tenths
    current_turn_tokens,  \* the max_tokens of the next turn
    passed        \* the arguments of run_chat_loop's last get_llm_response call

serverVars == <<phase, pathExists, llm, llm_lock, locked, waiters, fut, pc, messages,
                cancelReq, worker, result, outcome, acquired, released, health,
                healthBusy, llamaCalls, now>>

clientVars == <<conversation_history, returned, posted, reply, before, lastCall, lastArg>>

loopVars == <<loopPc, user_input, current_turn_temp, current_turn_tokens, passed>>

progVars == <<config_file, loaded, loopVars>>

vars == <<serverVars, clientVars, progVars>>

----------------------------------------------------------------------------
\* Outcomes of a request.

Pending == [kind |-> "pending", status |-> 0, detail |-> ""]
Cancelled == [kind |-> "cancelled", status |-> 0, detail |-> ""]
\* The handler fell off its end: it returned None.
ReturnedNone == [kind |-> "none", status |-> 0, detail |-> ""]

HTTPException(status_code, text) == [kind |-> "http", status |-> status_code, detail |-> text]

NoEngineResult == [kind |-> "none"]

\* What llm.create_chat_completion can hand back: an exception, a value that is
\* no dict, a dict of a wrong shape, a dict with a first choice (whose role,
\* content and finish_reason may each be missing).
EngineResults ==
    { [kind |-> "raise"], [kind |-> "nondict"],
      [kind |-> "dict", choices |-> "missing"],
      [kind |-> "dict", choices |-> "empty"],
      [kind |-> "dict", choices |-> "nomessage"],
      [kind |-> "dict", choices |-> "ok", role |-> "assistant",
       content |-> "hi there", finish_reason |-> "length", id |-> "present"],
      [kind |-> "dict", choices |-> "ok", role |-> "absent",
       content |-> "absent", finish_reason |-> "absent", id |-> "absent"],
      [kind |-> "dict", choices |-> "ok", role |-> "assistant",
       content |-> "hi there", finish_reason |-> "absent", id |-> "absent"],
      [kind |-> "dict", choices |-> "ok", role |-> "user",
       content |-> "absent", finish_reason |-> "length", id |-> "absent"] }

\* dict.get that hands back the missing value instead of the default.
get_without_default(value, default) == value

\* dict.get(key, default)
get(value, default) == IF value = "absent" THEN default ELSE value

\* The id of a response: the engine's own, one for each of its calls, or
\* f"chatcmpl-{int(time.time())}".
EngineId(call) == [by |-> "engine", prefix |-> "chatcmpl-", n |-> call]
SynthesizedId(seconds) == [by |-> "handler", prefix |-> "chatcmpl-", n |-> seconds]

ChatCompletionResponse(res) ==
    [kind |-> "response", status |-> 200, detail |-> "",
     role |-> get(res.role, "assistant"),
     content |-> get(res.content, ""),
     finish_reason |-> get(res.finish_reason, "stop"),
     id |-> IF res.id = "absent" THEN SynthesizedId(now) ELSE EngineId(res.call)]

----------------------------------------------------------------------------
\* lifespan(): startup up to the yield, then shutdown.

\* No post was made.
NoReply == [post |-> "none", status |-> 0, text |-> "none", body |-> [kind |-> "none"]]

\* LLMChatClient(service_url, request_timeout, default_system_prompt)
LLMChatClient(default_system_prompt) ==
    /\ conversation_history =
           IF default_system_prompt # NoSystemPrompt
           THEN <<[role |-> "system", content |-> default_system_prompt]>>
           ELSE <<>>
    /\ returned = ""
    /\ posted = <<>>
    /\ reply = NoReply
    /\ before = <<>>
    /\ lastCall = "__init__"
    /\ lastArg = default_system_prompt

\* A key of the configuration mapping: missing from the file, or given with a
\* value the schema accepts or refuses.
Missing(default) == [given |-> FALSE, ok |-> TRUE, v |-> default]
Given(value) == [given |-> TRUE, ok |-> TRUE, v |-> value]
Refused(value) == [given |-> TRUE, ok |-> FALSE, v |-> value]

\* The top-level mappings a configuration file may hold; temperatures are in
\* tenths.
ConfigMappings ==
    [kind : {"mapping"},
     service_url : {Missing(""), Given("http://localhost:1234")},
     request_timeout : {Missing(0), Given(200), Refused(0)},
     temperature : {Missing(0), Given(5), Refused(0)},
     max_tokens : {Missing(0), Given(150), Refused(0)},
     client_log_level : {Missing(""), Given("DEBUG")},
     default_system_prompt : {Missing(""), Given("be brief")}]

\* The configuration files: no file, a file that cannot be opened, a file
\* that is not YAML, an empty file, a YAML list, a YAML mapping.
ConfigFiles ==
    { [exists |-> FALSE, open |-> "none", yaml |-> "none", data |-> [kind |-> "none"]] }
    \cup { [exists |-> TRUE, open |-> e, yaml |-> "none", data |-> [kind |-> "none"]] :
               e \in {"PermissionError", "IsADirectoryError"} }
    \cup { [exists |-> TRUE, open |-> "ok", yaml |-> "YAMLError", data |-> [kind |-> "none"]] }
    \cup { [exists |-> TRUE, open |-> "ok", yaml |-> "ok", data |-> d] :
               d \in {[kind |-> "none"], [kind |-> "list"]} \cup ConfigMappings }

\* ClientConfig(**raw_config_data) of core/schemas.py for a mapping whose
\* values the schema accepts: each key missing from the mapping takes its
\* default.
ClientConfig(raw) ==
    [service_url |-> IF raw.service_url.given THEN raw.service_url.v
                     ELSE "http://localhost:8000/v1/chat/completions",
     request_timeout |-> IF raw.request_timeout.given THEN raw.request_timeout.v ELSE 120,
     temperature |-> IF raw.temperature.given THEN raw.temperature.v ELSE 7,
     max_tokens |-> IF raw.max_tokens.given THEN raw.max_tokens.v ELSE 250,
     client_log_level |-> IF raw.client_log_level.given THEN raw.client_log_level.v
                          ELSE "INFO",
     default_system_prompt |-> IF raw.default_system_prompt.given
                               THEN raw.default_system_prompt.v ELSE NoSystemPrompt]

\* The mapping with no key.
EmptyMapping ==
    [kind |-> "mapping", service_url |-> Missing(""), request_timeout |-> Missing(0),
     temperature |-> Missing(0), max_tokens |-> Missing(0),
     client_log_level |-> Missing(""), default_system_prompt |-> Missing("")]

NoConfig == ClientConfig(EmptyMapping)
NotLoaded == [kind |-> "none", type |-> "none", cause |-> "none", value |-> NoConfig]
Raised(type, cause) == [kind |-> "raise", type |-> type, cause |-> cause, value |-> NoConfig]
Returned(config) == [kind |-> "return", type |-> "none", cause |-> "none", value |-> config]

\* Whether ClientConfig(**raw) raises ValidationError.
ValidationError(raw) ==
    \/ ~raw.service_url.ok
    \/ ~raw.request_timeout.ok
    \/ ~raw.temperature.ok
    \/ ~raw.max_tokens.ok
    \/ ~raw.client_log_level.ok
    \/ ~raw.default_system_prompt.ok

\* load_config_from_yaml without the replacement of None by {}.
load_config_from_yaml_none_unhandled(f) ==
    IF ~f.exists THEN Raised("ConfigFileNotFoundError", "none")
    ELSE IF f.open # "ok" THEN Raised("RuntimeError", f.open)
    ELSE IF f.yaml # "ok" THEN Raised("ConfigError", "YAMLError")
    ELSE IF f.data.kind # "mapping" THEN Raised("RuntimeError", "TypeError")
    ELSE IF ValidationError(f.data) THEN Raised("ConfigError", "ValidationError")
    ELSE Returned(ClientConfig(f.data))

\* load_config_from_yaml(config_path)
load_config_from_yaml(f) ==
    IF ~f.exists THEN Raised("ConfigFileNotFoundError", "none")
    ELSE IF f.open # "ok" THEN Raised("RuntimeError", f.open)
    ELSE IF f.yaml # "ok" THEN Raised("ConfigError", "YAMLError")
    ELSE LET raw_config_data == IF f.data.kind = "none" THEN EmptyMapping ELSE f.data IN
         IF raw_config_data.kind # "mapping" THEN Raised("RuntimeError", "TypeError")
         ELSE IF ValidationError(raw_config_data)
         THEN Raised("ConfigError", "ValidationError")
         ELSE Returned(ClientConfig(raw_config_data))

\* A line typed at a prompt of run_chat_loop: a command, with the number its
\* argument parses to when it does, or a text.
Line(kind, parses, n, text) == [kind |-> kind, parses |-> parses, n |-> n, text |-> text]
NoLine == Line("none", FALSE, 0, "")
\* get_llm_response was not called.
NotPassed == [called |-> FALSE, temperature |-> 0, max_tokens |-> 0]

\* run_chat_loop is not running.
LoopNotStarted ==
    /\ loopPc = "off"
    /\ user_input = NoLine
    /\ current_turn_temp = 0
    /\ current_turn_tokens = 0
    /\ passed = NotPassed

\* The client program has not been started: no configuration file was read.
ProgramNotStarted ==
    /\ config_file = [exists |-> FALSE, open |-> "none", yaml |-> "none",
                      data |-> [kind |-> "none"]]
    /\ loaded = NotLoaded
    /\ LoopNotStarted

\* The application before its lifespan starts.
AppInit ==
    /\ phase = "init"
    /\ pathExists \in BOOLEAN
    /\ llm = "unset"
    /\ llm_lock = "unset"
    /\ locked = FALSE
    /\ waiters = <<>>
    /\ fut = [r \in Requests |-> "none"]
    /\ pc = [r \in Requests |-> "idle"]
    /\ messages = [r \in Requests |-> <<>>]
    /\ cancelReq = [r \in Requests |-> FALSE]
    /\ worker = [r \in Requests |-> "none"]
    /\ result = [r \in Requests |-> NoEngineResult]
    /\ outcome = [r \in Requests |-> Pending]
    /\ acquired = [r \in Requests |-> 0]
    /\ released = [r \in Requests |-> 0]
    /\ health = [status |-> "none"]
    /\ healthBusy = FALSE
    /\ llamaCalls = <<>>
    /\ now = 0

\* The service, with a client that has been constructed and is not used.
Init == AppInit /\ LLMChatClient(NoSystemPrompt) /\ ProgramNotStarted

\* The configuration the engine is built from (core/config.py).
EngineConfig ==
    [model_path |-> "MODEL_PATH", n_gpu_layers |-> "N_GPU_LAYERS", n_ctx |-> "N_CTX",
     n_threads |-> "N_THREADS", verbose |-> "VERBOSE_LLAMA"]

\* One call of Llama(...): its arguments and whether it returned the engine or
\* raised.
LlamaCall(loads) == [args |-> EngineConfig, result |-> IF loads THEN "engine" ELSE "raised"]

\* Startup without the os.path.exists test: Llama() is called on a missing file
\* too, and raises.
StartupWithoutExistsTest ==
    /\ phase = "init"
    /\ \E loads \in BOOLEAN :
         LET llm_instance == IF pathExists /\ loads THEN "engine" ELSE "none" IN
         /\ llm' = llm_instance
         /\ llm_lock' = IF llm_instance = "engine" THEN "lock" ELSE "none"
         /\ llamaCalls' = Append(llamaCalls, LlamaCall(pathExists /\ loads))
    /\ phase' = "serving"
    /\ locked' = FALSE
    /\ waiters' = <<>>
    /\ UNCHANGED <<clientVars, progVars, now>>
    /\ UNCHANGED <<pathExists, fut, pc, messages, cancelReq, worker, result, outcome,
                   acquired, released, health, healthBusy>>

\* Startup without the try/except around Llama(): an exception of the load
\* leaves lifespan() before app.state is set and before the yield.
StartupPropagatesLoadError ==
    /\ phase = "init"
    /\ \E loads \in BOOLEAN :
         /\ llm' = IF ~pathExists THEN "none" ELSE IF loads THEN "engine" ELSE llm
         /\ llm_lock' = IF ~pathExists THEN "none" ELSE IF loads THEN "lock" ELSE llm_lock
         /\ llamaCalls' = IF pathExists THEN Append(llamaCalls, LlamaCall(loads))
                          ELSE llamaCalls
         /\ phase' = IF pathExists /\ ~loads THEN "stopped" ELSE "serving"
    /\ locked' = FALSE
    /\ waiters' = <<>>
    /\ UNCHANGED <<clientVars, progVars, now>>
    /\ UNCHANGED <<pathExists, fut, pc, messages, cancelReq, worker, result, outcome,
                   acquired, released, health, healthBusy>>

\* Startup that stores the engine and makes no lock.
StartupWithoutLock ==
    /\ phase = "init"
    /\ \E loads \in BOOLEAN :
         /\ llm' = IF pathExists /\ loads THEN "engine" ELSE "none"
         /\ llamaCalls' = IF pathExists THEN Append(llamaCalls, LlamaCall(loads))
                          ELSE llamaCalls
    /\ llm_lock' = "none"
    /\ phase' = "serving"
    /\ locked' = FALSE
    /\ waiters' = <<>>
    /\ UNCHANGED <<clientVars, progVars, now>>
    /\ UNCHANGED <<pathExists, fut, pc, messages, cancelReq, worker, result, outcome,
                   acquired, released, health, healthBusy>>

\* The startup half of lifespan(): when the file exists Llama() is called once,
\* and llm_instance is the engine if it returns; it is None when the file is
\* missing or the call raises.  The lock is made with the engine.
Startup ==
    /\ phase = "init"
    /\ \E loads \in BOOLEAN :
         LET llm_instance == IF pathExists /\ loads THEN "engine" ELSE "none" IN
         /\ llm' = llm_instance
         /\ llm_lock' = IF llm_instance = "engine" THEN "lock" ELSE "none"
         /\ llamaCalls' = IF pathExists THEN Append(llamaCalls, LlamaCall(loads))
                          ELSE llamaCalls
    /\ phase' = "serving"
    /\ locked' = FALSE
    /\ waiters' = <<>>
    /\ UNCHANGED <<clientVars, progVars, now>>
    /\ UNCHANGED <<pathExists, fut, pc, messages, cancelReq, worker, result, outcome,
                   acquired, released, health, healthBusy>>

\* Shutdown that leaves app.state as it is.
ShutdownWithoutCleanup ==
    /\ phase = "serving"
    /\ phase' = "stopped"
    /\ UNCHANGED <<clientVars, progVars, now>>
    /\ UNCHANGED <<pathExists, llm, llm_lock, locked, waiters, fut, pc, messages,
                   cancelReq, worker, result, outcome, acquired, released, health,
                   healthBusy, llamaCalls>>

\* The shutdown half: the llm attribute is deleted when it holds an engine;
\* the llm_lock attribute is left as it is.
Shutdown ==
    /\ phase = "serving"
    /\ phase' = "stopped"
    /\ llm' = IF llm = "engine" THEN "unset" ELSE llm
    /\ UNCHANGED <<clientVars, progVars, now>>
    /\ UNCHANGED <<pathExists, llm_lock, locked, waiters, fut, pc, messages, cancelReq,
                   worker, result, outcome, acquired, released, health, healthBusy,
                   llamaCalls>>

\* The model file is removed from the disk.
RemoveArtifact ==
    /\ pathExists
    /\ pathExists' = FALSE
    /\ UNCHANGED <<clientVars, progVars, now>>
    /\ UNCHANGED <<phase, llm, llm_lock, locked, waiters, fut, pc, messages, cancelReq,
                   worker, result, outcome, acquired, released, health, healthBusy, llamaCalls>>

----------------------------------------------------------------------------
\* The dependency providers, solved before the handler body runs.

LLMUnavailable ==
    HTTPException(503, "LLM model is not loaded or unavailable. Check /health endpoint.")

\* get_llm_instance with the `is None` test left out.
get_llm_instance_hasattr_only ==
    IF llm = "unset" THEN LLMUnavailable ELSE Pending

\* get_llm_instance: 503 unless app.state has an llm attribute that is not None.
get_llm_instance ==
    IF llm = "unset" \/ llm = "none" THEN LLMUnavailable ELSE Pending

\* get_llm_lock: 503 unless app.state has an llm_lock attribute that is not None.
get_llm_lock ==
    IF llm_lock = "unset" \/ llm_lock = "none"
    THEN HTTPException(503, "LLM lock is unavailable. Service may be initializing or LLM failed to load.")
    ELSE Pending

\* The parameters of create_chat_completion: llm first, llm_lock second; the
\* first provider that raises ends the request.
Dependencies ==
    IF get_llm_instance # Pending THEN get_llm_instance ELSE get_llm_lock

----------------------------------------------------------------------------
\* asyncio.Lock, as `async with llm_lock` uses it.

RECURSIVE AllCancelled(_)
\* all(w.cancelled() for w in self._waiters)
AllCancelled(ws) ==
    IF ws = <<>> THEN TRUE
    ELSE fut[Head(ws)] = "cancelled" /\ AllCancelled(Tail(ws))

\* Lock._wake_up_first on the queue ws: the first waiter's future gets its
\* result unless it is done already.
wake_up_first(ws, f) ==
    IF ws # <<>> /\ f[Head(ws)] = "pending"
    THEN [f EXCEPT ![Head(ws)] = "result"]
    ELSE f

Remove(ws, r) == SelectSeq(ws, LAMBDA x : x # r)

\* loop.run_in_executor(None, blocking_task): a pool thread starts the call.
run_in_executor(r) == [worker EXCEPT ![r] = "running"]

\* Lock.release() by r, then r's task ends with `out` (release is skipped
\* when `rel` is false).
Finish(r, out, rel) ==
    /\ pc' = [pc EXCEPT ![r] = "done"]
    /\ outcome' = [outcome EXCEPT ![r] = out]
    /\ cancelReq' = [cancelReq EXCEPT ![r] = FALSE]
    /\ IF rel
       THEN /\ locked' = FALSE
            /\ fut' = wake_up_first(waiters, fut)
            /\ released' = [released EXCEPT ![r] = @ + 1]
       ELSE UNCHANGED <<locked, fut, released>>
    /\ UNCHANGED waiters

----------------------------------------------------------------------------
EmptyMessages == HTTPException(400, "Messages list cannot be empty.")

\* Arrive with the empty-messages check moved inside the `async with` block.
ArriveLateValidation(r) ==
    /\ pc[r] = "idle"
    /\ \A q \in Requests : q < r => pc[q] # "idle"
    /\ \E m \in MessageLists :
         /\ messages' = [messages EXCEPT ![r] = m]
         /\ IF Dependencies # Pending
            THEN /\ pc' = [pc EXCEPT ![r] = "done"]
                 /\ outcome' = [outcome EXCEPT ![r] = Dependencies]
                 /\ UNCHANGED <<locked, waiters, fut, worker, acquired, released>>
            ELSE IF ~locked /\ AllCancelled(waiters)
            THEN IF m = <<>>
                 THEN /\ acquired' = [acquired EXCEPT ![r] = @ + 1]
                      /\ released' = [released EXCEPT ![r] = @ + 1]
                      /\ pc' = [pc EXCEPT ![r] = "done"]
                      /\ outcome' = [outcome EXCEPT ![r] = EmptyMessages]
                      /\ UNCHANGED <<locked, waiters, fut, worker>>
                 ELSE /\ locked' = TRUE
                      /\ acquired' = [acquired EXCEPT ![r] = @ + 1]
                      /\ worker' = run_in_executor(r)
                      /\ pc' = [pc EXCEPT ![r] = "invoking"]
                      /\ UNCHANGED <<waiters, fut, outcome, released>>
            ELSE /\ waiters' = Append(waiters, r)
                 /\ fut' = [fut EXCEPT ![r] = "pending"]
                 /\ pc' = [pc EXCEPT ![r] = "waiting"]
                 /\ UNCHANGED <<locked, worker, acquired, outcome, released>>
    /\ UNCHANGED <<clientVars, progVars, now>>
    /\ UNCHANGED <<phase, pathExists, llm, llm_lock, cancelReq, result,
                   health, healthBusy, llamaCalls>>

\* Arrive that answers 503 instead of queueing when the lock is not free.
ArriveRejectsWhenLocked(r) ==
    /\ pc[r] = "idle"
    /\ \A q \in Requests : q < r => pc[q] # "idle"
    /\ \E m \in MessageLists :
         /\ messages' = [messages EXCEPT ![r] = m]
         /\ IF Dependencies # Pending
            THEN /\ pc' = [pc EXCEPT ![r] = "done"]
                 /\ outcome' = [outcome EXCEPT ![r] = Dependencies]
                 /\ UNCHANGED <<locked, waiters, fut, worker, acquired>>
            ELSE IF m = <<>>
            THEN /\ pc' = [pc EXCEPT ![r] = "done"]
                 /\ outcome' = [outcome EXCEPT ![r] = EmptyMessages]
                 /\ UNCHANGED <<locked, waiters, fut, worker, acquired>>
            ELSE IF ~locked /\ AllCancelled(waiters)
            THEN /\ locked' = TRUE
                 /\ acquired' = [acquired EXCEPT ![r] = @ + 1]
                 /\ worker' = run_in_executor(r)
                 /\ pc' = [pc EXCEPT ![r] = "invoking"]
                 /\ UNCHANGED <<waiters, fut, outcome>>
            ELSE /\ pc' = [pc EXCEPT ![r] = "done"]
                 /\ outcome' = [outcome EXCEPT ![r] = LLMUnavailable]
                 /\ UNCHANGED <<locked, waiters, fut, worker, acquired>>
    /\ UNCHANGED <<clientVars, progVars, now>>
    /\ UNCHANGED <<phase, pathExists, llm, llm_lock, cancelReq, result, released,
                   health, healthBusy, llamaCalls>>

\* create_chat_completion, from the arrival of the request to its first
\* suspension: the dependencies, the empty-messages check, Lock.acquire().
\* Requests are numbered in the order they arrive.
Arrive(r) ==
    /\ pc[r] = "idle"
    /\ \A q \in Requests : q < r => pc[q] # "idle"
    /\ \E m \in MessageLists :
         /\ messages' = [messages EXCEPT ![r] = m]
         /\ IF Dependencies # Pending
            THEN /\ pc' = [pc EXCEPT ![r] = "done"]
                 /\ outcome' = [outcome EXCEPT ![r] = Dependencies]
                 /\ UNCHANGED <<locked, waiters, fut, worker, acquired>>
            ELSE IF m = <<>>
            THEN /\ pc' = [pc EXCEPT ![r] = "done"]
                 /\ outcome' = [outcome EXCEPT ![r] = EmptyMessages]
                 /\ UNCHANGED <<locked, waiters, fut, worker, acquired>>
            ELSE IF ~locked /\ AllCancelled(waiters)
            THEN /\ locked' = TRUE
                 /\ acquired' = [acquired EXCEPT ![r] = @ + 1]
                 /\ worker' = run_in_executor(r)
                 /\ pc' = [pc EXCEPT ![r] = "invoking"]
                 /\ UNCHANGED <<waiters, fut, outcome>>
            ELSE /\ waiters' = Append(waiters, r)
                 /\ fut' = [fut EXCEPT ![r] = "pending"]
                 /\ pc' = [pc EXCEPT ![r] = "waiting"]
                 /\ UNCHANGED <<locked, worker, acquired, outcome>>
    /\ UNCHANGED <<clientVars, progVars, now>>
    /\ UNCHANGED <<phase, pathExists, llm, llm_lock, cancelReq, result, released,
                   health, healthBusy, llamaCalls>>

\* A queued task resumes in Lock.acquire() after its future got a result: it
\* leaves the queue, takes the lock and starts the engine call.
WakeAcquire(r) ==
    /\ pc[r] = "waiting"
    /\ fut[r] = "result"
    /\ ~cancelReq[r]
    /\ waiters' = Remove(waiters, r)
    /\ fut' = [fut EXCEPT ![r] = "none"]
    /\ locked' = TRUE
    /\ acquired' = [acquired EXCEPT ![r] = @ + 1]
    /\ worker' = run_in_executor(r)
    /\ pc' = [pc EXCEPT ![r] = "invoking"]
    /\ UNCHANGED <<clientVars, progVars, now>>
    /\ UNCHANGED <<phase, pathExists, llm, llm_lock, messages, cancelReq, result,
                   outcome, released, health, healthBusy, llamaCalls>>

\* What the future of r's run_in_executor call is completed with: the value or
\* exception `res` of the call made for r on r's messages.
Completed(r, res) == res @@ [call |-> r, messages |-> messages[r]]

\* WorkerFinish with one slot for the result of whichever call ended last:
\* the thread completes the future of the request that is awaiting a call.
WorkerFinishSharedSlot(r) ==
    /\ worker[r] = "running"
    /\ \E res \in EngineResults :
         result' = [q \in Requests |->
                       IF pc[q] = "invoking" THEN Completed(r, res) ELSE result[q]]
    /\ worker' = [worker EXCEPT ![r] = "finished"]
    /\ UNCHANGED <<clientVars, progVars, now>>
    /\ UNCHANGED <<phase, pathExists, llm, llm_lock, locked, waiters, fut, pc, messages,
                   cancelReq, outcome, acquired, released, health, healthBusy, llamaCalls>>

\* The executor thread of r ends: llm.create_chat_completion returns or raises.
WorkerFinish(r) ==
    /\ worker[r] = "running"
    /\ \E res \in EngineResults :
         \* nothing awaits the future of a task that has ended: the result is dropped
         result' = [result EXCEPT ![r] = IF pc[r] = "invoking" THEN Completed(r, res)
                                         ELSE NoEngineResult]
    /\ worker' = [worker EXCEPT ![r] = "finished"]
    /\ UNCHANGED <<clientVars, progVars, now>>
    /\ UNCHANGED <<phase, pathExists, llm, llm_lock, locked, waiters, fut, pc, messages,
                   cancelReq, outcome, acquired, released, health, healthBusy, llamaCalls>>

InvalidStructure == HTTPException(500, "Invalid response structure from LLM.")

\* process_result without the `except HTTPException: raise` clause: the
\* generic clause takes the HTTPException too.
process_result_no_reraise(res) ==
    IF res.kind = "raise" THEN ReturnedNone
    ELSE IF res.kind # "dict" THEN ReturnedNone
    ELSE IF res.choices # "ok" THEN ReturnedNone
    ELSE ChatCompletionResponse(res)

\* The handler's try block after the await, with its two except clauses: an
\* exception of the call, and the KeyError or IndexError of a dict of the wrong
\* shape, are logged by `except Exception` and the handler returns None.
process_result(res) ==
    IF res.kind = "raise" THEN ReturnedNone
    ELSE IF res.kind # "dict" THEN InvalidStructure
    ELSE IF res.choices # "ok" THEN ReturnedNone
    ELSE ChatCompletionResponse(res)

\* Resume with the lock released by hand at the end of the try block: an
\* exception of the engine call leaves it held.
ResumeLeakOnException(r) ==
    /\ pc[r] = "invoking"
    /\ worker[r] = "finished"
    /\ ~cancelReq[r]
    /\ Finish(r, process_result(result[r]), process_result(result[r]) # ReturnedNone)
    /\ result' = [result EXCEPT ![r] = NoEngineResult]
    /\ UNCHANGED <<clientVars, progVars, now>>
    /\ UNCHANGED <<phase, pathExists, llm, llm_lock, messages, worker, acquired,
                   health, healthBusy, llamaCalls>>

\* Resume with the lock released twice when the HTTPException is re-raised
\* (once by hand before the raise, once by the `async with` block).
ResumeDoubleRelease(r) ==
    /\ pc[r] = "invoking"
    /\ worker[r] = "finished"
    /\ ~cancelReq[r]
    /\ pc' = [pc EXCEPT ![r] = "done"]
    /\ outcome' = [outcome EXCEPT ![r] = process_result(result[r])]
    /\ cancelReq' = [cancelReq EXCEPT ![r] = FALSE]
    /\ locked' = FALSE
    /\ fut' = wake_up_first(waiters, fut)
    /\ released' = [released EXCEPT ![r] =
                       IF process_result(result[r]).kind = "http" THEN @ + 2 ELSE @ + 1]
    /\ result' = [result EXCEPT ![r] = NoEngineResult]
    /\ UNCHANGED <<clientVars, progVars, now>>
    /\ UNCHANGED <<phase, pathExists, llm, llm_lock, waiters, messages, worker, acquired,
                   health, healthBusy, llamaCalls>>

\* Resume that sets app.state.llm to None when the engine call raised.
ResumeDropsEngineOnError(r) ==
    /\ pc[r] = "invoking"
    /\ worker[r] = "finished"
    /\ ~cancelReq[r]
    /\ Finish(r, process_result(result[r]), TRUE)
    /\ result' = [result EXCEPT ![r] = NoEngineResult]
    /\ llm' = IF result[r].kind = "raise" THEN "none" ELSE llm
    /\ UNCHANGED <<clientVars, progVars, now>>
    /\ UNCHANGED <<phase, pathExists, llm_lock, messages, worker, acquired,
                   health, healthBusy, llamaCalls>>

\* Resume that calls the engine again when the call raised.
ResumeRetriesOnException(r) ==
    /\ pc[r] = "invoking"
    /\ worker[r] = "finished"
    /\ ~cancelReq[r]
    /\ IF result[r].kind = "raise"
       THEN /\ worker' = run_in_executor(r)
            /\ UNCHANGED <<pc, outcome, cancelReq, locked, fut, released, waiters>>
       ELSE /\ Finish(r, process_result(result[r]), TRUE)
            /\ UNCHANGED worker
    /\ result' = [result EXCEPT ![r] = NoEngineResult]
    /\ UNCHANGED <<clientVars, progVars, now>>
    /\ UNCHANGED <<phase, pathExists, llm, llm_lock, messages, acquired,
                   health, healthBusy, llamaCalls>>

\* The task resumes after the await of the executor future, maps the result
\* and leaves the `async with` block.
Resume(r) ==
    /\ pc[r] = "invoking"
    /\ worker[r] = "finished"
    /\ ~cancelReq[r]
    /\ Finish(r, process_result(result[r]), TRUE)
    /\ result' = [result EXCEPT ![r] = NoEngineResult]
    /\ UNCHANGED <<clientVars, progVars, now>>
    /\ UNCHANGED <<phase, pathExists, llm, llm_lock, messages, worker, acquired,
                   health, healthBusy, llamaCalls>>

----------------------------------------------------------------------------
\* Cancellation of a request task.

\* task.cancel(): a pending future is cancelled; CancelledError is thrown into
\* the task at its next step.
Cancel(r) ==
    /\ pc[r] \in {"waiting", "invoking"}
    /\ ~cancelReq[r]
    /\ cancelReq' = [cancelReq EXCEPT ![r] = TRUE]
    /\ fut' = [fut EXCEPT ![r] = IF @ = "pending" THEN "cancelled" ELSE @]
    /\ UNCHANGED <<clientVars, progVars, now>>
    /\ UNCHANGED <<phase, pathExists, llm, llm_lock, locked, waiters, pc, messages,
                   worker, result, outcome, acquired, released, health, healthBusy, llamaCalls>>

\* CancelledWaiting that only leaves the queue: a wake-up the task had been
\* given is not passed on.
CancelledWaitingLosesWakeUp(r) ==
    /\ pc[r] = "waiting"
    /\ cancelReq[r]
    /\ waiters' = Remove(waiters, r)
    /\ fut' = [fut EXCEPT ![r] = "none"]
    /\ pc' = [pc EXCEPT ![r] = "done"]
    /\ outcome' = [outcome EXCEPT ![r] = Cancelled]
    /\ cancelReq' = [cancelReq EXCEPT ![r] = FALSE]
    /\ UNCHANGED <<clientVars, progVars, now>>
    /\ UNCHANGED <<phase, pathExists, llm, llm_lock, locked, messages, worker, result,
                   acquired, released, health, healthBusy, llamaCalls>>

\* CancelledError in Lock.acquire(): the task leaves the queue and, when the
\* lock is free, passes the wake-up on.
CancelledWaiting(r) ==
    /\ pc[r] = "waiting"
    /\ cancelReq[r]
    /\ waiters' = Remove(waiters, r)
    /\ fut' = IF locked THEN [fut EXCEPT ![r] = "none"]
              ELSE wake_up_first(Remove(waiters, r), [fut EXCEPT ![r] = "none"])
    /\ pc' = [pc EXCEPT ![r] = "done"]
    /\ outcome' = [outcome EXCEPT ![r] = Cancelled]
    /\ cancelReq' = [cancelReq EXCEPT ![r] = FALSE]
    /\ UNCHANGED <<clientVars, progVars, now>>
    /\ UNCHANGED <<phase, pathExists, llm, llm_lock, locked, messages, worker, result,
                   acquired, released, health, healthBusy, llamaCalls>>

\* CancelledError at the await of the executor future: no except clause
\* catches it, the `async with` block releases the lock, the thread runs on.
CancelledInvoking(r) ==
    /\ pc[r] = "invoking"
    /\ cancelReq[r]
    /\ Finish(r, Cancelled, TRUE)
    /\ result' = [result EXCEPT ![r] = NoEngineResult]
    /\ UNCHANGED <<clientVars, progVars, now>>
    /\ UNCHANGED <<phase, pathExists, llm, llm_lock, messages, worker, acquired,
                   health, healthBusy, llamaCalls>>

----------------------------------------------------------------------------
\* health_check_status

GateBusy ==
    /\ locked
    /\ \E r \in Requests : pc[r] = "invoking" /\ worker[r] = "running"
    /\ \E r \in Requests : pc[r] = "waiting"

\* health_check_status with the `is not None` test left out.
health_check_status_hasattr_only ==
    LET llm_instance_available == llm # "unset"
        model_name_display ==
            IF llm_instance_available /\ pathExists THEN "basename"
            ELSE IF ~pathExists THEN "basename (file not found)"
            ELSE "N/A"
    IN  IF llm_instance_available
        THEN [status |-> "ok", model_loaded |-> TRUE,
              keys |-> {"status", "model_loaded", "model_name"},
              model_name |-> model_name_display]
        ELSE [status |-> "warning", model_loaded |-> FALSE,
              keys |-> {"status", "model_loaded", "message", "configured_model_path"},
              model_name |-> "absent"]

health_check_status ==
    LET llm_instance_available == llm # "unset" /\ llm # "none"
        model_name_display ==
            IF llm_instance_available /\ pathExists THEN "basename"
            ELSE IF ~pathExists THEN "basename (file not found)"
            ELSE "N/A"
    IN  IF llm_instance_available
        THEN [status |-> "ok", model_loaded |-> TRUE,
              keys |-> {"status", "model_loaded", "model_name"},
              model_name |-> model_name_display]
        ELSE [status |-> "warning", model_loaded |-> FALSE,
              keys |-> {"status", "model_loaded", "message", "configured_model_path"},
              model_name |-> "absent"]

\* HealthCheck taking the lock to read the engine's state.
HealthCheckUnderLock ==
    /\ ~locked
    /\ health' = health_check_status
    /\ healthBusy' = GateBusy
    /\ UNCHANGED <<clientVars, progVars, now>>
    /\ UNCHANGED <<phase, pathExists, llm, llm_lock, locked, waiters, fut, pc, messages,
                   cancelReq, worker, result, outcome, acquired, released, llamaCalls>>

\* GET /health: answered by the event loop in one step, whatever the lock's state.
HealthCheck ==
    /\ health' = health_check_status
    /\ healthBusy' = GateBusy
    /\ UNCHANGED <<clientVars, progVars, now>>
    /\ UNCHANGED <<phase, pathExists, llm, llm_lock, locked, waiters, fut, pc, messages,
                   cancelReq, worker, result, outcome, acquired, released, llamaCalls>>

----------------------------------------------------------------------------
Next ==
    \/ Startup
    \/ Shutdown
    \/ RemoveArtifact
    \/ HealthCheck
    \/ \E r \in Requests : Arrive(r)
    \/ \E r \in Requests : WakeAcquire(r)
    \/ \E r \in Requests : WorkerFinish(r)
    \/ \E r \in Requests : Resume(r)
    \/ \E r \in Requests : Cancel(r)
    \/ \E r \in Requests : CancelledWaiting(r)
    \/ \E r \in Requests : CancelledInvoking(r)

Spec == Init /\ [][Next]_vars

\* The event loop runs every task that is ready, and every engine call ends.
Fairness ==
    \A r \in Requests :
        /\ WF_vars(WakeAcquire(r))
        /\ WF_vars(WorkerFinish(r))
        /\ WF_vars(Resume(r))
        /\ WF_vars(CancelledWaiting(r))
        /\ WF_vars(CancelledInvoking(r))

\* GET /health and the removal of the model file write only health, healthBusy
\* and pathExists, which no step of a completion request reads: the steps that
\* decide whether a queued request gets the lock are the following.
LiveNext ==
    \/ Startup
    \/ Shutdown
    \/ \E r \in Requests : Arrive(r)
    \/ \E r \in Requests : WakeAcquire(r)
    \/ \E r \in Requests : WorkerFinish(r)
    \/ \E r \in Requests : Resume(r)
    \/ \E r \in Requests : Cancel(r)
    \/ \E r \in Requests : CancelledWaiting(r)
    \/ \E r \in Requests : CancelledInvoking(r)

LiveSpec == Init /\ [][LiveNext]_vars /\ Fairness

\* A second of the service's clock passes.
Tick ==
    /\ now < MaxClock
    /\ now' = now + 1
    /\ UNCHANGED <<phase, pathExists, llm, llm_lock, locked, waiters, fut, pc, messages,
                   cancelReq, worker, result, outcome, acquired, released, health,
                   healthBusy, llamaCalls, clientVars, progVars>>

\* The requests served while the clock runs.  The clock is read only for the
\* id of a response; Spec and LiveSpec leave it at the second the service
\* started in.
TimedNext == LiveNext \/ Tick

TimedSpec == Init /\ [][TimedNext]_vars

----------------------------------------------------------------------------
\* LLMChatClient: the replies of the service and the client's operations.

\* A JSON object that is a chat completion with one choice.
ChatCompletionBody(content) ==
    [kind |-> "object",
     members |-> [choices |-> <<[message |-> [role |-> "assistant", content |-> content]]>>]]

\* The JSON bodies a 200 reply may carry.
Bodies ==
    { [kind |-> "array"],
      [kind |-> "object", members |-> [detail |-> "x"]],
      [kind |-> "object", members |-> [choices |-> <<>>]],
      [kind |-> "object", members |-> [choices |-> <<[index |-> 0]>>]],
      [kind |-> "object",
       members |-> [choices |-> <<[message |-> [role |-> "assistant"]]>>]] }
    \cup { ChatCompletionBody(c) : c \in AssistantContents }

\* What requests.post and the response can do: the post raises, the status is
\* an error status, the body is not JSON, or the body is some JSON value.
ServiceReplies ==
    { [post |-> e, status |-> 0, text |-> "none", body |-> [kind |-> "none"]] :
         e \in {"ConnectionError", "Timeout"} }
    \cup { [post |-> "ok", status |-> c, text |-> "json", body |-> [kind |-> "object", members |-> [detail |-> "x"]]] :
         c \in {400, 500, 503} }
    \cup { [post |-> "ok", status |-> 200, text |-> "invalid", body |-> [kind |-> "none"]] }
    \cup { [post |-> "ok", status |-> 200, text |-> "json", body |-> b] : b \in Bodies }

\* The exception raised inside the try block of get_llm_response for a reply,
\* "none" when the block runs to its return.
raised(rp) ==
    IF rp.post # "ok" THEN rp.post
    ELSE IF rp.status >= 400 THEN "HTTPError"
    ELSE IF rp.text # "json" THEN "JSONDecodeError"
    ELSE IF rp.body.kind # "object" THEN "TypeError"
    ELSE LET response_data == rp.body.members IN
         IF "choices" \notin DOMAIN response_data THEN "KeyError"
         ELSE IF Len(response_data.choices) = 0 THEN "IndexError"
         ELSE IF "message" \notin DOMAIN response_data.choices[1] THEN "KeyError"
         ELSE IF "content" \notin DOMAIN response_data.choices[1].message THEN "KeyError"
         ELSE "none"

NoUserMessage == "Error: Internal client error - no user message to respond to."
InvalidResponse == "Error: Received an invalid response from the AI."
UnexpectedProblem == "Error: An unexpected problem occurred."

\* A revert that removes nothing.
revert_nothing(history) == history

\* _revert_last_user_message()
revert_last_user_message(history) ==
    IF history # <<>> /\ history[Len(history)].role = "user"
    THEN SubSeq(history, 1, Len(history) - 1)
    ELSE history

add_user_message(content) ==
    /\ Len(conversation_history) < MaxHistory
    /\ conversation_history' =
           Append(conversation_history, [role |-> "user", content |-> content])
    /\ before' = conversation_history
    /\ lastCall' = "add_user_message"
    /\ lastArg' = content
    /\ UNCHANGED <<returned, posted, reply>>
    /\ UNCHANGED serverVars

add_assistant_message(content) ==
    /\ Len(conversation_history) < MaxHistory
    /\ conversation_history' =
           Append(conversation_history, [role |-> "assistant", content |-> content])
    /\ lastCall' = "add_assistant_message"
    /\ lastArg' = content
    /\ UNCHANGED <<returned, posted, reply, before>>
    /\ UNCHANGED serverVars

\* get_llm_response without the test of the last message: it posts whatever
\* the history is.
get_llm_response_unguarded ==
    /\ lastCall' = "get_llm_response"
    /\ lastArg' = ""
    /\ \E rp \in ServiceReplies :
            /\ raised(rp) = "none" => Len(conversation_history) < MaxHistory
            /\ posted' = <<conversation_history>>
            /\ reply' = rp
            /\ IF raised(rp) \in {"KeyError", "IndexError", "TypeError"}
               THEN /\ conversation_history' = revert_last_user_message(conversation_history)
                    /\ returned' = InvalidResponse
               ELSE IF raised(rp) # "none"
               THEN /\ conversation_history' = revert_last_user_message(conversation_history)
                    /\ returned' = UnexpectedProblem
               ELSE LET assistant_message_data == rp.body.members.choices[1].message IN
                    /\ conversation_history' =
                           Append(conversation_history,
                                  [role |-> "assistant",
                                   content |-> assistant_message_data.content])
                    /\ returned' = assistant_message_data.content
    /\ UNCHANGED before
    /\ UNCHANGED serverVars

\* get_llm_response that posts only the last message of the history.
get_llm_response_last_message_only ==
    /\ lastCall' = "get_llm_response"
    /\ lastArg' = ""
    /\ IF \/ conversation_history = <<>>
          \/ conversation_history[Len(conversation_history)].role # "user"
       THEN /\ returned' = NoUserMessage
            /\ posted' = <<>>
            /\ reply' = NoReply
            /\ UNCHANGED conversation_history
       ELSE \E rp \in ServiceReplies :
            /\ raised(rp) = "none" => Len(conversation_history) < MaxHistory
            /\ posted' = << <<conversation_history[Len(conversation_history)]>> >>
            /\ reply' = rp
            /\ IF raised(rp) \in {"KeyError", "IndexError", "TypeError"}
               THEN /\ conversation_history' = revert_last_user_message(conversation_history)
                    /\ returned' = InvalidResponse
               ELSE IF raised(rp) # "none"
               THEN /\ conversation_history' = revert_last_user_message(conversation_history)
                    /\ returned' = UnexpectedProblem
               ELSE LET assistant_message_data == rp.body.members.choices[1].message IN
                    /\ conversation_history' =
                           Append(conversation_history,
                                  [role |-> "assistant",
                                   content |-> assistant_message_data.content])
                    /\ returned' = assistant_message_data.content
    /\ UNCHANGED before
    /\ UNCHANGED serverVars

get_llm_response ==
    /\ lastCall' = "get_llm_response"
    /\ lastArg' = ""
    /\ IF \/ conversation_history = <<>>
          \/ conversation_history[Len(conversation_history)].role # "user"
       THEN /\ returned' = NoUserMessage
            /\ posted' = <<>>
            /\ reply' = NoReply
            /\ UNCHANGED conversation_history
       ELSE \E rp \in ServiceReplies :
            /\ raised(rp) = "none" => Len(conversation_history) < MaxHistory
            /\ posted' = <<conversation_history>>
            /\ reply' = rp
            /\ IF raised(rp) \in {"KeyError", "IndexError", "TypeError"}
               THEN /\ conversation_history' = revert_last_user_message(conversation_history)
                    /\ returned' = InvalidResponse
               ELSE IF raised(rp) # "none"
               THEN /\ conversation_history' = revert_last_user_message(conversation_history)
                    /\ returned' = UnexpectedProblem
               ELSE LET assistant_message_data == rp.body.members.choices[1].message IN
                    /\ conversation_history' =
                           Append(conversation_history,
                                  [role |-> "assistant",
                                   content |-> assistant_message_data.content])
                    /\ returned' = assistant_message_data.content
    /\ UNCHANGED before
    /\ UNCHANGED serverVars

\* clear_history that keeps the system message of the history when it is given
\* no new prompt.
clear_history_keeps_system_message(system_prompt) ==
    /\ conversation_history' =
           IF system_prompt # NoSystemPrompt
           THEN <<[role |-> "system", content |-> system_prompt]>>
           ELSE SelectSeq(conversation_history, LAMBDA m : m.role = "system")
    /\ lastCall' = "clear_history"
    /\ lastArg' = system_prompt
    /\ UNCHANGED <<returned, posted, reply, before>>
    /\ UNCHANGED serverVars

clear_history(system_prompt) ==
    /\ conversation_history' =
           IF system_prompt # NoSystemPrompt
           THEN <<[role |-> "system", content |-> system_prompt]>>
           ELSE <<>>
    /\ lastCall' = "clear_history"
    /\ lastArg' = system_prompt
    /\ UNCHANGED <<returned, posted, reply, before>>
    /\ UNCHANGED serverVars

\* The operations called on a client object directly, in any order.
call_add_user_message(content) == add_user_message(content) /\ UNCHANGED progVars
call_add_assistant_message(content) == add_assistant_message(content) /\ UNCHANGED progVars
call_get_llm_response == get_llm_response /\ UNCHANGED progVars
call_clear_history(system_prompt) == clear_history(system_prompt) /\ UNCHANGED progVars

ClientInit ==
    /\ AppInit
    /\ ProgramNotStarted
    /\ \E p \in SystemPrompts \cup {NoSystemPrompt} : LLMChatClient(p)

ClientNext ==
    \/ \E c \in UserInputs : call_add_user_message(c)
    \/ \E c \in AssistantContents : call_add_assistant_message(c)
    \/ call_get_llm_response
    \/ \E p \in SystemPrompts \cup {NoSystemPrompt} : call_clear_history(p)

ClientSpec == ClientInit /\ [][ClientNext]_vars

----------------------------------------------------------------------------
\* load_config_from_yaml applied to each configuration file.

ConfigInit ==
    /\ AppInit
    /\ LLMChatClient(NoSystemPrompt)
    /\ config_file \in ConfigFiles
    /\ loaded = NotLoaded
    /\ LoopNotStarted

LoadConfig ==
    /\ loaded = NotLoaded
    /\ loaded' = load_config_from_yaml(config_file)
    /\ UNCHANGED <<config_file, loopVars, serverVars, clientVars>>

ConfigSpec == ConfigInit /\ [][LoadConfig]_vars

----------------------------------------------------------------------------
\* run_chat_loop(config): one action for each kind of line read at "You: ",
\* and one for the get_llm_response call of a turn.

\* The configuration files the loop is run with: an empty one, and one that
\* sets the generation parameters and a system prompt.
LoopConfigFiles ==
    { [exists |-> TRUE, open |-> "ok", yaml |-> "ok", data |-> [kind |-> "none"]],
      [exists |-> TRUE, open |-> "ok", yaml |-> "ok",
       data |-> [kind |-> "mapping", service_url |-> Missing(""),
                 request_timeout |-> Missing(0), temperature |-> Given(5),
                 max_tokens |-> Given(150), client_log_level |-> Missing(""),
                 default_system_prompt |-> Given("be brief")]] }

\* What is typed after "/temp " and after "/tokens ": numbers (temperatures in
\* tenths) and something that is no number.
TempLines == { Line("temp", TRUE, n, "") : n \in {-1, 12, 20, 21} }
                 \cup { Line("temp", FALSE, 0, "warm") }
TokensLines == { Line("tokens", TRUE, n, "") : n \in {-5, 0, 100} }
                 \cup { Line("tokens", FALSE, 0, "many") }

config == loaded.value

\* user input > config default > none
ChosenPrompt(typed) == IF typed # "" THEN typed ELSE config.default_system_prompt

\* run_chat_loop up to its first "You: " prompt, after __main__ loaded the
\* configuration.
LoopInit ==
    /\ AppInit
    /\ config_file \in LoopConfigFiles
    /\ loaded = load_config_from_yaml(config_file)
    /\ \E typed \in SystemPrompts \cup {NoSystemPrompt} :
           /\ LLMChatClient(ChosenPrompt(typed))
           /\ user_input = Line("prompt", FALSE, 0, typed)
    /\ loopPc = "input"
    /\ current_turn_temp = config.temperature
    /\ current_turn_tokens = config.max_tokens
    /\ passed = NotPassed

\* "/exit", EOF or Ctrl-C at the prompt.
LoopExit ==
    /\ loopPc = "input"
    /\ loopPc' = "exited"
    /\ user_input' = Line("exit", FALSE, 0, "")
    /\ UNCHANGED <<current_turn_temp, current_turn_tokens, passed, config_file, loaded>>
    /\ UNCHANGED <<clientVars, serverVars>>

\* An empty line, or "/history".
LoopSkip ==
    /\ loopPc = "input"
    /\ \E k \in {"empty", "history"} : user_input' = Line(k, FALSE, 0, "")
    /\ UNCHANGED <<loopPc, current_turn_temp, current_turn_tokens, passed, config_file, loaded>>
    /\ UNCHANGED <<clientVars, serverVars>>

\* "/clear" that keeps the history and appends the new system prompt to it.
LoopClearAppendsPrompt ==
    /\ loopPc = "input"
    /\ \E typed \in SystemPrompts \cup {NoSystemPrompt} :
           /\ user_input' = Line("clear", FALSE, 0, typed)
           /\ Len(conversation_history) < MaxHistory
           /\ conversation_history' =
                  IF ChosenPrompt(typed) # NoSystemPrompt
                  THEN Append(conversation_history,
                              [role |-> "system", content |-> ChosenPrompt(typed)])
                  ELSE conversation_history
           /\ lastCall' = "clear_history"
           /\ lastArg' = ChosenPrompt(typed)
           /\ UNCHANGED <<returned, posted, reply, before>>
           /\ UNCHANGED serverVars
    /\ current_turn_temp' = config.temperature
    /\ current_turn_tokens' = config.max_tokens
    /\ UNCHANGED <<loopPc, passed, config_file, loaded>>

\* "/clear": the new system prompt is asked for, the history is cleared and the
\* generation parameters go back to the configured ones.
LoopClear ==
    /\ loopPc = "input"
    /\ \E typed \in SystemPrompts \cup {NoSystemPrompt} :
           /\ user_input' = Line("clear", FALSE, 0, typed)
           /\ clear_history(ChosenPrompt(typed))
    /\ current_turn_temp' = config.temperature
    /\ current_turn_tokens' = config.max_tokens
    /\ UNCHANGED <<loopPc, passed, config_file, loaded>>

\* "/temp <value>" that takes every number.
LoopTempUnchecked ==
    /\ loopPc = "input"
    /\ \E line \in TempLines :
           /\ user_input' = line
           /\ current_turn_temp' = IF line.parses THEN line.n ELSE current_turn_temp
    /\ UNCHANGED <<loopPc, current_turn_tokens, passed, config_file, loaded>>
    /\ UNCHANGED <<clientVars, serverVars>>

\* "/temp <value>"
LoopTemp ==
    /\ loopPc = "input"
    /\ \E line \in TempLines :
           /\ user_input' = line
           /\ current_turn_temp' =
                  IF line.parses /\ 0 <= line.n /\ line.n <= 20 THEN line.n
                  ELSE current_turn_temp
    /\ UNCHANGED <<loopPc, current_turn_tokens, passed, config_file, loaded>>
    /\ UNCHANGED <<clientVars, serverVars>>

\* "/tokens <value>"
LoopTokens ==
    /\ loopPc = "input"
    /\ \E line \in TokensLines :
           /\ user_input' = line
           /\ current_turn_tokens' =
                  IF line.parses /\ line.n > 0 THEN line.n ELSE current_turn_tokens
    /\ UNCHANGED <<loopPc, current_turn_temp, passed, config_file, loaded>>
    /\ UNCHANGED <<clientVars, serverVars>>

\* Any other line: client.add_user_message(user_input).
LoopSay ==
    /\ loopPc = "input"
    /\ \E text \in UserInputs :
           /\ user_input' = Line("text", FALSE, 0, text)
           /\ add_user_message(text)
    /\ loopPc' = "turn"
    /\ UNCHANGED <<current_turn_temp, current_turn_tokens, passed, config_file, loaded>>

\* client.get_llm_response(temperature=..., max_tokens=...), then the
\* generation parameters go back to the configured ones.
LoopRespond ==
    /\ loopPc = "turn"
    /\ get_llm_response
    /\ passed' = [called |-> TRUE, temperature |-> current_turn_temp,
                  max_tokens |-> current_turn_tokens]
    /\ current_turn_temp' = config.temperature
    /\ current_turn_tokens' = config.max_tokens
    /\ loopPc' = "input"
    /\ UNCHANGED <<user_input, config_file, loaded>>

LoopNext ==
    \/ LoopExit
    \/ LoopSkip
    \/ LoopClear
    \/ LoopTemp
    \/ LoopTokens
    \/ LoopSay
    \/ LoopRespond

LoopSpec == LoopInit /\ [][LoopNext]_vars

----------------------------------------------------------------------------
\* The engine calls that are executing: the executor threads still inside
\* llm.create_chat_completion.
Executing == {r \in Requests : worker[r] = "running"}

\* The requests inside the `async with llm_lock` block.
Holding == {r \in Requests : acquired[r] > released[r]}

\* C1: while the engine is present, at most one call of
\* llm.create_chat_completion is executing in every reachable state, also when
\* a request task is cancelled while its call is in flight.
AtMostOneGenerationExecuting ==
    llm = "engine" => Cardinality(Executing) <= 1

\* C2: a request that took the lock releases it exactly once on every way out
\* of the critical section (response, HTTPException, exception of the engine
\* call): once its handler has finished it holds the lock no more, and the
\* lock is locked only while some request is inside the block.
GateReleasedExactlyOnce ==
    /\ \A r \in Requests :
         /\ acquired[r] <= 1
         /\ released[r] <= acquired[r]
         /\ pc[r] = "done" => released[r] = acquired[r]
         /\ pc[r] = "invoking" <=> r \in Holding
    /\ locked <=> Holding # {}

\* C2 witness: a request left the critical section by the exception branch and
\* by then had taken and released the lock once.
GateReleasedAfterException ==
    \E r \in Requests :
        /\ pc[r] = "done"
        /\ outcome[r] = ReturnedNone
        /\ acquired[r] = 1
        /\ released[r] = 1
        /\ ~locked

\* C3 as stated: every request that starts waiting for the lock goes on to
\* take it, so a queued request leaves the queue only by taking the lock.
WaiterLeavesQueueOnlyByAcquiring ==
    [][\A r \in Requests :
          pc[r] = "waiting" => pc'[r] \in {"waiting", "invoking"}]_vars

\* C3 amended: provided every engine call ends, every request that starts
\* waiting for the lock takes it in the end, unless its task is cancelled
\* while it is waiting.
WaiterAcquiresUnlessCancelled ==
    \A r \in Requests :
        (pc[r] = "waiting") ~> (pc[r] = "invoking" \/ outcome[r] = Cancelled)

\* C3 witness: a request failed with an exception of the engine call, and its
\* release handed the lock to the request queued behind it.
FailedHolderWokeWaiter ==
    \E q, r \in Requests :
        /\ outcome[q] = ReturnedNone
        /\ pc[r] = "waiting"
        /\ fut[r] = "result"
        /\ ~locked

\* C4: a well-formed request that arrives while app.state.llm is unset or None
\* ends at once with the 503 of get_llm_instance; it does not touch the lock
\* or its queue and starts no engine call.
AbsentEngineGives503 ==
    [][\A r \in Requests :
          (pc[r] = "idle" /\ pc'[r] # "idle" /\ messages'[r] # <<>>
                /\ llm \in {"unset", "none"})
          => /\ pc'[r] = "done"
             /\ outcome'[r] = LLMUnavailable
             /\ UNCHANGED <<locked, waiters, fut, worker, acquired, released>>]_vars

\* C4 witness: the model failed to load, and a well-formed request was
\* answered 503 without having taken the lock or called the engine.
WellFormedRequestRefused ==
    \E r \in Requests :
        /\ phase = "serving"
        /\ llm = "none"
        /\ pc[r] = "done"
        /\ messages[r] # <<>>
        /\ outcome[r].status = 503
        /\ acquired[r] = 0
        /\ worker[r] = "none"

\* C5: a request whose messages list is empty is answered 400 in every state
\* of the service.
EmptyMessagesAlwaysGive400 ==
    \A r \in Requests :
        (pc[r] = "done" /\ messages[r] = <<>>) => outcome[r] = EmptyMessages

\* C6: the step that rejects a request with 400 changes neither the lock, its
\* queue nor any engine call, and a request rejected with 400 never took the
\* lock and never had an engine call started for it.
ClientErrorLeavesGateAlone ==
    [][\A r \in Requests :
          /\ (pc[r] = "idle" /\ outcome'[r] = EmptyMessages)
               => UNCHANGED <<locked, waiters, fut, worker, result, acquired, released>>
          /\ outcome[r] = EmptyMessages
               => acquired[r] = 0 /\ worker[r] = "none" /\ pc[r] = "done"]_vars

\* C6 witness: a request was rejected with 400 while another one holds the
\* lock with its engine call running.
ClientErrorBesideHolder ==
    \E q, r \in Requests :
        /\ outcome[r] = EmptyMessages
        /\ pc[q] = "invoking"
        /\ worker[q] = "running"
        /\ locked

\* C7: every request that reached the engine call and was not cancelled ends
\* with a completion response or an HTTP error; a failure of the call other
\* than a non-dict result ends with status 500.
InvokedRequestEndsWithResponseOrError ==
    \A r \in Requests :
        (pc[r] = "done" /\ acquired[r] > 0 /\ outcome[r] # Cancelled)
        => outcome[r].kind \in {"response", "http"}

\* C8: when the engine call returns a value that is no dict, the handler ends
\* with HTTPException(500, 'Invalid response structure from LLM.'), which the
\* generic except clause does not take.
NonDictResultGives500 ==
    [][\A r \in Requests :
          (pc[r] = "invoking" /\ pc'[r] = "done" /\ ~cancelReq[r]
                /\ result[r].kind = "nondict")
          => outcome'[r] = InvalidStructure]_vars

\* C8 witness: a request ended with that error after its engine call.
RequestEndedInvalidStructure ==
    \E r \in Requests :
        /\ pc[r] = "done"
        /\ outcome[r] = InvalidStructure
        /\ acquired[r] = 1
        /\ worker[r] = "finished"

\* C9: /health answers "ok" with model_loaded true and a model_name exactly
\* when app.state.llm holds an engine, and otherwise "warning" with
\* model_loaded false, a message and the configured path; it raises in
\* neither case, the missing llm attribute included.
HealthReflectsEngine ==
    [][HealthCheck =>
          /\ health'.status \in {"ok", "warning"}
          /\ health'.status = "ok" <=> llm = "engine"
          /\ health'.status = "ok" =>
                /\ health'.model_loaded
                /\ "model_name" \in health'.keys
                /\ health'.model_name # "absent"
          /\ health'.status = "warning" =>
                /\ ~health'.model_loaded
                /\ {"message", "configured_model_path"} \subseteq health'.keys]_vars

\* C9 witness: /health answered "warning" while app.state had no llm
\* attribute at all.
HealthWarnedWithoutAttribute ==
    /\ phase = "init"
    /\ llm = "unset"
    /\ health.status = "warning"
    /\ ~health.model_loaded

\* C10: in every state where a request holds the lock with its engine call
\* running and another request is queued for the lock, /health can be
\* answered at once.
HealthNeverWaitsOnGate ==
    GateBusy => ENABLED HealthCheck

\* C10 witness: /health was answered in such a state, and the lock is still
\* held by the same call with the other request still queued.
HealthAnsweredWhileGateBusy ==
    /\ healthBusy
    /\ GateBusy
    /\ health.status = "ok"

----------------------------------------------------------------------------
\* The lifespan.

\* A step of the startup half of lifespan().
StartupStep == phase = "init" /\ phase' # "init"

\* C11: app.state.llm_lock holds a lock exactly when app.state.llm holds the
\* engine, at every point of the process lifetime, shutdown included.
GateExistsIffEnginePresent ==
    (llm_lock = "lock") <=> (llm = "engine")

\* C12: after shutdown app.state.llm is absent (deleted or None) however
\* startup ended, and a shutdown that finds it absent ends normally and
\* changes nothing of app.state.
EngineAbsentAfterShutdown ==
    [][/\ phase' = "stopped" => llm' \in {"unset", "none"}
       /\ (phase = "serving" /\ phase' = "stopped" /\ llm \in {"unset", "none"})
             => (llm' = llm /\ llm_lock' = llm_lock)
       /\ phase = "stopped" => phase' = "stopped"]_vars

\* C12 witness: the engine was loaded and shutdown removed it.
LoadedEngineRemovedAtShutdown ==
    /\ phase = "stopped"
    /\ llm = "unset"
    /\ Len(llamaCalls) = 1
    /\ llamaCalls[1].result = "engine"

\* C13: when the model file is missing at startup, Llama() is not called,
\* app.state.llm and app.state.llm_lock are set to None, and startup reaches
\* the yield, after which requests are served.
MissingArtifactSkipsLoad ==
    [][(StartupStep /\ ~pathExists)
          => /\ llamaCalls' = <<>>
             /\ llm' = "none"
             /\ llm_lock' = "none"
             /\ phase' = "serving"]_vars

\* C13 witness: the service is at the yield without any call of Llama(), and
\* /health and a completion request have been answered.
ServingWithoutArtifact ==
    /\ phase = "serving"
    /\ llamaCalls = <<>>
    /\ llm = "none"
    /\ llm_lock = "none"
    /\ health.status = "warning"
    /\ \E r \in Requests : outcome[r] = LLMUnavailable

\* C14: when the file exists and Llama() raises, the constructor has been
\* called exactly once, app.state.llm and app.state.llm_lock are None, and
\* startup still reaches the yield.
FailedLoadLeavesEngineAbsent ==
    [][(StartupStep /\ llamaCalls' # <<>>
            /\ llamaCalls'[Len(llamaCalls')].result = "raised")
          => /\ pathExists
             /\ Len(llamaCalls') = 1
             /\ llm' = "none"
             /\ llm_lock' = "none"
             /\ phase' = "serving"]_vars

\* C14 witness: the service is at the yield after the one call of Llama() raised.
ServingAfterFailedLoad ==
    /\ phase = "serving"
    /\ Len(llamaCalls) = 1
    /\ llamaCalls[1].result = "raised"
    /\ llm = "none"
    /\ llm_lock = "none"

\* C15: when Llama() returns, it has been called exactly once, with the
\* configuration; app.state.llm holds the engine it returned, and the lock
\* exists, unlocked and with an empty queue, no request having taken it or
\* queued for it before.
SuccessfulLoadCreatesUnlockedGate ==
    [][(StartupStep /\ llamaCalls' # <<>>
            /\ llamaCalls'[Len(llamaCalls')].result = "engine")
          => /\ llamaCalls' = <<[args |-> EngineConfig, result |-> "engine"]>>
             /\ llm' = "engine"
             /\ llm_lock' = "lock"
             /\ ~locked'
             /\ waiters' = <<>>
             /\ phase' = "serving"
             /\ \A r \in Requests : acquired'[r] = 0 /\ pc'[r] \in {"idle", "done"}]_vars

\* C15 witness: the service is at the yield with the engine loaded and the
\* lock free, before any request has arrived.
ServingWithEngineAndFreeGate ==
    /\ phase = "serving"
    /\ llm = "engine"
    /\ llm_lock = "lock"
    /\ ~locked
    /\ waiters = <<>>
    /\ llamaCalls = <<[args |-> EngineConfig, result |-> "engine"]>>
    /\ \A r \in Requests : pc[r] = "idle"

\* C16: app.state.llm and app.state.llm_lock change only in a step of
\* lifespan(): the startup step sets them, the shutdown step may clear llm,
\* and lifespan() runs each half once; no step of the completion handler, of
\* its dependencies or of /health changes them.
OnlyLifespanChangesEngineAndGate ==
    [][/\ (llm' # llm \/ llm_lock' # llm_lock)
            => \/ phase = "init" /\ phase' = "serving"
               \/ phase = "serving" /\ phase' = "stopped" /\ llm = "engine"
       /\ phase' # phase
            => \/ phase = "init" /\ phase' = "serving"
               \/ phase = "serving" /\ phase' = "stopped"]_vars

\* C16 witness: a completion was answered, /health was answered, and the
\* lifespan has ended with the engine removed.
ServedThenStopped ==
    /\ phase = "stopped"
    /\ llm = "unset"
    /\ health.status = "ok"
    /\ \E r \in Requests : outcome[r].kind = "response"

\* The step in which the handler of r maps a dict with a first choice that
\* carries a message.
MapsFirstChoice(r) ==
    /\ pc[r] = "invoking"
    /\ pc'[r] = "done"
    /\ ~cancelReq[r]
    /\ result[r].kind = "dict"
    /\ result[r].choices = "ok"

\* C17: for a dict with a first choice and its message, the response carries
\* the engine's content ("" when missing), the engine's role ("assistant"
\* when missing) and the engine's finish_reason ("stop" when missing).
ResponseDefaultFill ==
    [][\A r \in Requests :
          MapsFirstChoice(r)
          => /\ outcome'[r].kind = "response"
             /\ outcome'[r].content =
                    (IF result[r].content = "absent" THEN "" ELSE result[r].content)
             /\ outcome'[r].role =
                    (IF result[r].role = "absent" THEN "assistant" ELSE result[r].role)
             /\ outcome'[r].finish_reason =
                    (IF result[r].finish_reason = "absent" THEN "stop"
                     ELSE result[r].finish_reason)]_vars

\* C17 witness: the engine gave content "hi there" and no finish_reason, and
\* the response carries "hi there" with finish_reason "stop".
CannedContentWithDefaultFinish ==
    \E r \in Requests :
        /\ pc[r] = "done"
        /\ outcome[r].kind = "response"
        /\ outcome[r].content = "hi there"
        /\ outcome[r].role = "assistant"
        /\ outcome[r].finish_reason = "stop"

\* C18: an engine call is started for a request only in the step in which the
\* request enters the critical section, that step starts one, and no second
\* call is started for it afterwards, whatever the first one returned or
\* raised.
EngineCalledOncePerRequest ==
    [][\A r \in Requests :
          /\ (worker'[r] = "running" /\ worker[r] # "running")
                => (worker[r] = "none" /\ pc[r] # "invoking" /\ pc'[r] = "invoking")
          /\ (pc[r] # "invoking" /\ pc'[r] = "invoking")
                => (worker[r] = "none" /\ worker'[r] = "running")
          /\ worker[r] # "none" => worker'[r] # "none"
          /\ pc[r] = "done" => pc'[r] = "done"]_vars

\* C18 witness: one request ended after its call raised, another after its call
\* returned a completion, each with its one call over.
CallsEndedBothWays ==
    \E q, r \in Requests :
        /\ outcome[q] = ReturnedNone
        /\ outcome[r].kind = "response"
        /\ worker[q] = "finished"
        /\ worker[r] = "finished"

\* C19: a request cancelled while queued for the lock never takes it; the
\* step in which it gives up the wait changes neither the lock's holder nor
\* any other request, and leaves the queue such that, when the lock is free, a
\* remaining waiter has its wake-up (or is itself about to give up and pass it
\* on).
CancelledWaiterLeavesGateIntact ==
    [][\A r \in Requests :
          (pc[r] = "waiting" /\ cancelReq[r])
          => /\ pc'[r] \in {"waiting", "done"}
             /\ acquired'[r] = 0
             /\ pc'[r] = "done"
                   => /\ outcome'[r] = Cancelled
                      /\ locked' = locked
                      /\ waiters' = Remove(waiters, r)
                      /\ \A q \in Requests \ {r} :
                            /\ pc'[q] = pc[q]
                            /\ worker'[q] = worker[q]
                            /\ acquired'[q] = acquired[q]
                            /\ released'[q] = released[q]
                      /\ (~locked' /\ waiters' # <<>>)
                            => \E q \in Requests :
                                  /\ pc'[q] = "waiting"
                                  /\ fut'[q] = "result" \/ cancelReq'[q]]_vars

\* C19 witness: a request was cancelled while queued and never held the lock,
\* the request that held it has ended, and a request queued behind the
\* cancelled one has been given the wake-up.
WakeUpPassedBehindCancelledWaiter ==
    \E h, r, q \in Requests :
        /\ pc[h] = "done"
        /\ acquired[h] = 1
        /\ outcome[r] = Cancelled
        /\ acquired[r] = 0
        /\ r < q
        /\ pc[q] = "waiting"
        /\ fut[q] = "result"
        /\ ~locked

\* The last get_llm_response call made its post and the service did not
\* answer with a chat completion: the post raised, the status was an error
\* status, or the body was not a JSON object with choices[0].message.content.
FailedAfterSending ==
    /\ lastCall = "get_llm_response"
    /\ posted # <<>>
    /\ ~ /\ reply.post = "ok"
         /\ reply.status = 200
         /\ reply.text = "json"
         /\ \E c \in AssistantContents : reply.body = ChatCompletionBody(c)

\* C20: a get_llm_response call that fails after its one post removes the
\* user message it sent, the last of the history, and nothing else, and returns
\* one of the two "Error: ..." strings; add_user_message had appended that one
\* message, so after a failing call that follows add_user_message the history
\* is the history before add_user_message was called.
ClientRollback ==
    [][/\ FailedAfterSending'
          => /\ posted' = <<conversation_history>>
             /\ conversation_history # <<>>
             /\ conversation_history[Len(conversation_history)].role = "user"
             /\ conversation_history' =
                   SubSeq(conversation_history, 1, Len(conversation_history) - 1)
             /\ returned' \in {InvalidResponse, UnexpectedProblem}
             /\ lastCall = "add_user_message" => conversation_history' = before
       /\ lastCall' = "add_user_message"
          => /\ before' = conversation_history
             /\ \E c \in UserInputs :
                   conversation_history' =
                      Append(conversation_history, [role |-> "user", content |-> c])]_vars

\* C20 witness: after an answered turn, a second user message was sent and the
\* reply had no content in its message; the history is back to the two
\* messages of the first turn.
RolledBackAfterMissingContent ==
    /\ FailedAfterSending
    /\ reply.body = [kind |-> "object",
                     members |-> [choices |-> <<[message |-> [role |-> "assistant"]]>>]]
    /\ returned = InvalidResponse
    /\ Len(before) = 2
    /\ before[2].role = "assistant"
    /\ conversation_history = before

\* C21: a get_llm_response call on a history that is empty or does not end with
\* a user message returns the internal client error string, makes no post, and
\* leaves the history as it was.
NoUserMessageNoPost ==
    [][(/\ lastCall' = "get_llm_response"
        /\ \/ conversation_history = <<>>
           \/ conversation_history[Len(conversation_history)].role # "user")
       => /\ returned' = NoUserMessage
          /\ posted' = <<>>
          /\ reply' = NoReply
          /\ conversation_history' = conversation_history]_vars

\* C21 witness: get_llm_response was called on a history ending with an
\* assistant message: the error string came back, nothing was posted and the
\* history still ends with that message.
RefusedAfterAssistantMessage ==
    /\ lastCall = "get_llm_response"
    /\ returned = NoUserMessage
    /\ posted = <<>>
    /\ Len(conversation_history) >= 2
    /\ conversation_history[Len(conversation_history)].role = "assistant"

\* The last get_llm_response call made its post and the service answered with
\* a chat completion.
SucceededAfterSending ==
    /\ lastCall = "get_llm_response"
    /\ posted # <<>>
    /\ reply.post = "ok"
    /\ reply.status = 200
    /\ reply.text = "json"
    /\ \E c \in AssistantContents : reply.body = ChatCompletionBody(c)

\* C22: a get_llm_response call that succeeds made one post, of the whole
\* history, and appends one assistant message whose content is the string it
\* returns, the content of the reply; the messages before it stay as they were.
SuccessAppendsOneAssistantMessage ==
    [][SucceededAfterSending'
       => /\ posted' = <<conversation_history>>
          /\ returned' = reply'.body.members.choices[1].message.content
          /\ conversation_history' =
                Append(conversation_history,
                       [role |-> "assistant", content |-> returned'])]_vars

\* C22 witness: a client with a system prompt got its first turn answered.
FirstTurnAnswered ==
    /\ SucceededAfterSending
    /\ returned = "hi there"
    /\ Len(conversation_history) = 3
    /\ conversation_history[1].role = "system"
    /\ conversation_history[2].role = "user"
    /\ conversation_history[3] = [role |-> "assistant", content |-> "hi there"]
    /\ posted = <<SubSeq(conversation_history, 1, 2)>>

ConfigLoadTyped ==
    loaded # NotLoaded
    => LET f == config_file
           d == f.data
           readable == f.exists /\ f.open = "ok"
           refused == /\ d.kind = "mapping"
                      /\ \E k \in DOMAIN d \ {"kind"} : ~d[k].ok
       IN /\ ~f.exists => loaded = Raised("ConfigFileNotFoundError", "none")
          /\ (f.exists /\ f.open # "ok")
                => (loaded.kind = "raise" /\ loaded.type = "RuntimeError")
          /\ (readable /\ f.yaml # "ok") => loaded = Raised("ConfigError", "YAMLError")
          /\ (readable /\ f.yaml = "ok" /\ d.kind = "list")
                => (loaded.kind = "raise" /\ loaded.type = "RuntimeError")
          /\ (readable /\ f.yaml = "ok" /\ refused)
                => (loaded.kind = "raise" /\ loaded.type = "ConfigError")
          /\ (readable /\ f.yaml = "ok" /\ d.kind = "none")
                => loaded = Returned([service_url |-> "http://localhost:8000/v1/chat/completions",
                                      request_timeout |-> 120, temperature |-> 7,
                                      max_tokens |-> 250, client_log_level |-> "INFO",
                                      default_system_prompt |-> NoSystemPrompt])
          /\ loaded.kind \in {"raise", "return"}
          /\ loaded.kind = "return"
                => /\ readable /\ f.yaml = "ok" /\ d.kind \in {"none", "mapping"} /\ ~refused
                   /\ DOMAIN loaded.value =
                         {"service_url", "request_timeout", "temperature", "max_tokens",
                          "client_log_level", "default_system_prompt"}
                   /\ d.kind = "mapping"
                         => \A k \in DOMAIN loaded.value :
                               d[k].given => loaded.value[k] = d[k].v

\* C24 witness: an empty file was loaded as the all-defaults configuration.
EmptyFileLoadedAsDefaults ==
    /\ config_file.exists
    /\ config_file.yaml = "ok"
    /\ config_file.data.kind = "none"
    /\ loaded.kind = "return"
    /\ loaded.value.request_timeout = 120
    /\ loaded.value.temperature = 7
    /\ loaded.value.max_tokens = 250

\* C25: in every reachable state, a request whose executor thread is inside
\* llm.create_chat_completion is inside the `async with llm_lock` block, also
\* after its task was cancelled.
GateHeldWhileWorkerRuns ==
    \A r \in Requests : worker[r] = "running" => r \in Holding

\* A well-formed request arrives while the engine is present and the lock is
\* held.
ArrivesUnderContention(r) ==
    /\ pc[r] = "idle"
    /\ pc'[r] # "idle"
    /\ messages'[r] # <<>>
    /\ llm = "engine"
    /\ locked

\* What C26 says of a request from its arrival under contention on: it is
\* queued, not answered; while it is queued it is not answered with an error;
\* it takes the lock only when the lock is free and is then its only holder;
\* and a 503 is given only on arrival and only when the engine is absent.
ContentionQueues ==
    [][\A r \in Requests :
          /\ ArrivesUnderContention(r)
                => /\ pc'[r] = "waiting"
                   /\ outcome'[r] = Pending
                   /\ r \in {waiters'[i] : i \in 1..Len(waiters')}
          /\ pc[r] = "waiting"
                => /\ outcome'[r] \in {Pending, Cancelled}
                   /\ locked => pc'[r] # "invoking"
          /\ (pc[r] = "waiting" /\ pc'[r] = "invoking")
                => (~locked /\ locked' /\ Holding' = {r})
          /\ (outcome'[r].status = 503 /\ outcome[r].status # 503)
                => (pc[r] = "idle" /\ llm # "engine")]_vars

\* C26 as stated: every request queued for the lock is granted it.
ContendingRequestGranted ==
    ContentionQueues /\ \A r \in Requests : (pc[r] = "waiting") ~> (pc[r] = "invoking")

\* C26 amended: a well-formed request that arrives while the lock is held is
\* queued and never answered 503; it takes the lock once no other request
\* holds it, unless its task is cancelled while it is queued.
ContendingRequestGrantedUnlessCancelled ==
    ContentionQueues
    /\ \A r \in Requests :
          (pc[r] = "waiting" /\ ~cancelReq[r]) ~> (pc[r] = "invoking" \/ cancelReq[r])

\* C26 witness: the holder has answered and released the lock, and the request
\* that was queued behind it has been given the wake-up and is about to take
\* the lock.
QueuedRequestWokenAfterResponse ==
    \E q, r \in Requests :
        /\ llm = "engine"
        /\ outcome[q].kind = "response"
        /\ pc[r] = "waiting"
        /\ fut[r] = "result"
        /\ ~cancelReq[r]
        /\ outcome[r] = Pending
        /\ ~locked

\* C27: the future a request awaits is completed only with the result or
\* exception of the call started for that request on its messages, and the
\* response or error the request ends with is built from that result: a
\* response carries its content, role and finish_reason, anything else ends in
\* the handler's error paths.
OwnResultDelivered ==
    [][\A r \in Requests :
          /\ result'[r] # NoEngineResult
                => /\ result'[r].call = r
                   /\ result'[r].messages = messages'[r]
                   /\ pc'[r] = "invoking"
          /\ (pc[r] = "invoking" /\ pc'[r] = "done" /\ ~cancelReq[r])
                => /\ worker[r] = "finished"
                   /\ result[r] # NoEngineResult
                   /\ result[r].call = r
                   /\ IF result[r].kind = "dict" /\ result[r].choices = "ok"
                      THEN /\ outcome'[r].kind = "response"
                           /\ outcome'[r].content = get(result[r].content, "")
                           /\ outcome'[r].role = get(result[r].role, "assistant")
                           /\ outcome'[r].finish_reason = get(result[r].finish_reason, "stop")
                      ELSE outcome'[r].kind \in {"none", "http"}]_vars

\* C27 witness: two requests were answered with different completions while a
\* third was queued or being served.
DifferentAnswersSideBySide ==
    \E q, r, w \in Requests :
        /\ outcome[q].kind = "response"
        /\ outcome[r].kind = "response"
        /\ outcome[q].content # outcome[r].content
        /\ pc[w] \in {"waiting", "invoking"}

\* C28: two different requests answered with a synthesized id never get the
\* same id, and a synthesized id starts with "chatcmpl-".
SynthesizedIdsDistinct ==
    \A q, r \in Requests :
        (/\ outcome[q].kind = "response"
         /\ outcome[q].id.by = "handler")
        => /\ outcome[q].id.prefix = "chatcmpl-"
           /\ (q # r /\ outcome[r].kind = "response" /\ outcome[r].id.by = "handler")
                 => outcome[q].id # outcome[r].id

\* An optional system message first, then user and assistant messages in
\* turn, ending with an assistant message.
SystemThenPairs(history) ==
    LET turns == IF history # <<>> /\ history[1].role = "system"
                 THEN Tail(history) ELSE history
    IN  /\ Len(turns) % 2 = 0
        /\ \A i \in 1..Len(turns) :
              turns[i].role = IF i % 2 = 1 THEN "user" ELSE "assistant"

\* C29: whenever run_chat_loop is at its prompt or has exited, that is after
\* every completed turn and every command, the history is an optional system
\* message followed by user/assistant pairs.
HistoryAlternatesBetweenTurns ==
    loopPc \in {"input", "exited"} => SystemThenPairs(conversation_history)

\* C29 witness: after an answered turn, a second turn failed; the loop is back
\* at its prompt with the two messages of the first turn.
SecondTurnFailedAtPrompt ==
    /\ loopPc = "input"
    /\ FailedAfterSending
    /\ Len(conversation_history) = 2
    /\ conversation_history[2].role = "assistant"

\* C30: a "/temp" or "/tokens" value that is accepted becomes the setting of
\* the next turn and no other setting changes; a value that is out of range or
\* no number changes nothing; the settings stay as they are until the next
\* get_llm_response call, which is passed them and after which they are the
\* configured ones again, as they are after "/clear"; so the values passed are
\* in range whenever the configured ones are.
OverrideLastsOneTurn ==
    [][ LET line == user_input'
            atPrompt == loopPc = "input" /\ loopPc' = "input"
            kept == /\ current_turn_temp' = current_turn_temp
                    /\ current_turn_tokens' = current_turn_tokens
            configured == /\ current_turn_temp' = config.temperature
                          /\ current_turn_tokens' = config.max_tokens
        IN  /\ (atPrompt /\ line.kind = "temp") =>
                  IF line.parses /\ 0 <= line.n /\ line.n <= 20
                  THEN /\ current_turn_temp' = line.n
                       /\ current_turn_tokens' = current_turn_tokens
                  ELSE kept
            /\ (atPrompt /\ line.kind = "tokens") =>
                  IF line.parses /\ line.n > 0
                  THEN /\ current_turn_tokens' = line.n
                       /\ current_turn_temp' = current_turn_temp
                  ELSE kept
            /\ (atPrompt /\ line.kind = "clear") => configured
            /\ (atPrompt /\ line.kind \in {"empty", "history"}) => kept
            /\ (loopPc = "input" /\ loopPc' # "input") => kept /\ passed' = passed
            /\ atPrompt => passed' = passed
            /\ (loopPc = "turn" /\ loopPc' = "input") =>
                  /\ passed' = [called |-> TRUE, temperature |-> current_turn_temp,
                                max_tokens |-> current_turn_tokens]
                  /\ configured
            /\ (/\ passed'.called
                /\ 0 <= config.temperature /\ config.temperature <= 20
                /\ config.max_tokens > 0) =>
                  /\ 0 <= passed'.temperature /\ passed'.temperature <= 20
                  /\ passed'.max_tokens > 0 ]_vars

\* C30 witness: a turn was generated with a temperature and a max_tokens set by
\* "/temp" and "/tokens", and the loop is at its prompt with the configured
\* ones again.
OverrideUsedThenReset ==
    /\ loopPc = "input"
    /\ passed.called
    /\ passed.temperature = 20
    /\ passed.max_tokens = 100
    /\ current_turn_temp = config.temperature
    /\ current_turn_tokens = config.max_tokens

====
